---- MODULE Spec2Model ----
(***************************************************************************)
(* One managed host of ssh-terminal-manager: the State object (state.py),  *)
(* the SSHManager that drives it (manager.py), the SSH session it owns     *)
(* (ssh.py) and its probe (ping.py).  An operation of the manager is one   *)
(* action; the outcome of every external primitive (ICMP probe, paramiko   *)
(* connect, exec channel, the action commands of the base Manager) is an   *)
(* input of the action.                                                    *)
(*                                                                         *)
(* Spec        the SSHManager with its State and its SSH session           *)
(* SpecSetAttr direct assignments to the fields of a State                 *)
(* SpecTerminal the SSHTerminal of terminal.py, driven by its caller       *)
(***************************************************************************)
EXTENDS Integers, Sequences, FiniteSets, TLC

VARIABLES
    online,             \* State.online
    connected,          \* State.connected
    request,            \* State.request (None or a Request)
    error,              \* State.error
    request_timestamp,  \* State._request_timestamp
    client,             \* SSH._client, the paramiko transport: "closed", "open"
                        \* (socket up, not authenticated) or "session"
    use_icmplib,        \* Ping.use_icmplib: None until a probe has tested it, then
                        \* "True" or "False"
    cache,              \* the sensor commands' cached data: "reset" or "fresh"
    now,                \* time()
    disconnect_mode,    \* SSHManager.disconnect_mode
    invoke_shell,       \* SSH._invoke_shell
    add_host_keys,      \* add_host_keys: AutoAddPolicy instead of CustomRejectPolicy
    lastOp,             \* the operation that has just ended ("idle": its caller has
                        \* taken the result and the next operation can be called)
    raised,             \* what that operation raised to its caller (None: it returned)
    notified,           \* number of State.on_change notifications it made
    attempts,           \* number of paramiko connect attempts it made
    probed,             \* outcome of the probe it made: "none", "ok", "fail"
    verdict,            \* outcome of the last connect attempt it made on the
                        \* transport: "none", "ok", "hostkey", "auth", "failed"
    host_key,           \* the host key that attempt was offered: "none" (the host
                        \* was not reached), "known" or "unknown" to the client
    raise_errors,       \* the raise_errors argument of async_update (FALSE in any
                        \* other operation)
    returned,           \* <<v>>: the value v a property read or a parser call
                        \* returned; <<>> otherwise
    steps,              \* the steps the last async_update went through, in order
    stdin,              \* the lines of the command string written to a shell
                        \* channel (<<>>: no shell channel is open)
    stdout_bytes,       \* what the shell has written to that channel so far
    answers,            \* what the shell has done with each of those lines so far
    terminal,           \* the channel is one of terminal.py (FALSE: of ssh.py)
    executed,           \* what the last command it ran met on the channel (None: it
                        \* ran none)
    expired,            \* the request handle_update cleared in it (None: nothing)
    auth_failed         \* a connect attempt has failed on the host key or on the
                        \* credentials and no attempt has succeeded since

vars == <<online, connected, request, error, request_timestamp, client, use_icmplib,
          cache, now, disconnect_mode, invoke_shell, add_host_keys,
          lastOp, raised, notified, attempts, probed, verdict, host_key,
          raise_errors, returned, steps, stdin, stdout_bytes, answers, terminal,
          executed, expired,
          auth_failed>>

\* the shell channel
channel == <<stdin, stdout_bytes, answers, terminal>>

----------------------------------------------------------------------------
(* Bounds of the model. *)

\* time() never exceeds MaxTime in the model
MaxTime == 62
\* the clock advances by TickShort or TickLong seconds between two operations
TickShort == 30
TickLong == 31
\* commands the base Manager runs in one async_update
MaxCmds == 1

----------------------------------------------------------------------------
(* state.py: constants *)

None == "none"

STATE_NAMES == {"online", "connected", "request", "error"}

TIMEOUTS == [turn_on |-> 60, turn_off |-> 30, restart |-> 30, connect |-> 30]

Request == {"turn_on", "turn_off", "restart", "connect"}

(* errors.py and terminal_manager: the exceptions an operation raises *)
OfflineError == "OfflineError"
SSHHostKeyUnknownError == "SSHHostKeyUnknownError"
SSHAuthenticationError == "SSHAuthenticationError"
SSHConnectError == "SSHConnectError"
\* ExecutionError, told apart by its message where the code gives it a fixed one
ExecutionError == "ExecutionError"
ExecutionTimeout == "ExecutionError: Timeout during command"
ExecutionNotConnected == "ExecutionError: Not connected"
ExecutionConnectFailed == "ExecutionError: Failed to connect"
TimeoutError == "TimeoutError"
ValueError == "ValueError"
ActionError == "ActionError"

(* error.py and terminal_manager: the exceptions SSHTerminal raises *)
HostKeyUnknownError == "HostKeyUnknownError"
AuthenticationError == "AuthenticationError"
ConnectError == "ConnectError"

(* Outcomes of the external primitives. *)
\* the probe: the host answers, does not answer, or the probe itself fails
PingOutcomes == {"alive", "dead", "fault"}
\* the test of unprivileged ICMP sockets: allowed, SocketPermissionError, another fault
IcmplibTests == {"ok", "denied", "fault"}
\* what paramiko's connect meets: is the host reachable on its port, is its key in
\* the loaded host keys, are the credentials accepted
ConnectEnvs ==
    {e \in [reach : BOOLEAN, known : BOOLEAN, auth : BOOLEAN] :
        ~e.reach => (e.known /\ e.auth)}
\* what a command meets on the channel
ExecOutcomes ==
    {"ok", "open_fail", "send_fail", "read_timeout", "read_fail", "parse_fail"}
\* outcomes only the interactive shell has
ShellOnly == {"send_fail", "parse_fail"}

----------------------------------------------------------------------------
(* The program state as one record, threaded through the operators below. *)

Cur ==
    [online |-> online, connected |-> connected, request |-> request,
     error |-> error, request_timestamp |-> request_timestamp,
     client |-> client, use_icmplib |-> use_icmplib, cache |-> cache, now |-> now,
     disconnect_mode |-> disconnect_mode, invoke_shell |-> invoke_shell,
     add_host_keys |-> add_host_keys,
     raised |-> raised, notified |-> notified, attempts |-> attempts,
     probed |-> probed, verdict |-> verdict, host_key |-> host_key,
     raise_errors |-> raise_errors, returned |-> returned, steps |-> steps,
     executed |-> executed,
     expired |-> expired,
     auth_failed |-> auth_failed]

\* sequencing: F applied to the value of x
Bind(x, F(_)) == CHOOSE r \in {F(v) : v \in {x}} : TRUE

Raise(s, exc) == [s EXCEPT !.raised = exc]

Caught(s) == [s EXCEPT !.raised = None]

\* Manager.reset_commands: the cached data of every sensor command is dropped
ResetCommands(s) == [s EXCEPT !.cache = "reset"]

----------------------------------------------------------------------------
(* state.py: class State *)

\* a bug: every assignment of a state field notifies, changed or not
SetAttrAlwaysNotify(s, name, value) ==
    Bind([s EXCEPT ![name] = value], LAMBDA t :
        IF name \notin STATE_NAMES
        THEN t
        ELSE [t EXCEPT !.notified = @ + 1,
                       !.request_timestamp = IF name = "request" THEN s.now ELSE @])

\* a bug: the previous value is read after the assignment, so nothing ever differs
SetAttrPrevAfter(s, name, value) == [s EXCEPT ![name] = value]

\* a bug: assigning the request that is already pending restarts its clock
SetAttrRefreshOnReissue(s, name, value) ==
    Bind([s EXCEPT ![name] = value], LAMBDA t :
        IF name \notin STATE_NAMES
        THEN t
        ELSE IF value = s[name]
        THEN [t EXCEPT !.request_timestamp = IF name = "request" THEN s.now ELSE @]
        ELSE [t EXCEPT !.notified = @ + 1,
                       !.request_timestamp = IF name = "request" THEN s.now ELSE @])

\* State.__setattr__
SetAttr(s, name, value) ==
    Bind([s EXCEPT ![name] = value], LAMBDA t :
        IF name \notin STATE_NAMES \/ value = s[name]
        THEN t
        ELSE [t EXCEPT !.notified = @ + 1,
                       !.request_timestamp = IF name = "request" THEN s.now ELSE @])

\* a bug: one budget, that of turn_on, for every kind of request
HandleUpdateOneBudget(s) ==
    IF s.request = None
    THEN s
    ELSE IF s.now - s.request_timestamp > TIMEOUTS["turn_on"]
         THEN Bind([s EXCEPT !.expired = s.request], LAMBDA a :
                  SetAttr(a, "request", None))
         ELSE s

\* a bug: a pending request never runs out of time
HandleUpdateNoBudget(s) == s

\* State.handle_update
HandleUpdate(s) ==
    IF s.request = None
    THEN s
    ELSE IF s.now - s.request_timestamp > TIMEOUTS[s.request]
         THEN Bind([s EXCEPT !.expired = s.request], LAMBDA a :
                  SetAttr(a, "request", None))
         ELSE s

\* State.handle_disconnect
HandleDisconnect(s) == SetAttr(s, "connected", FALSE)

\* SSH.disconnect: close the transport, state.connected = False
\* (on_disconnect is an Event of the SSH object, not a state change event)
SSHDisconnect(s, notify) ==
    Bind([s EXCEPT !.client = "closed"], LAMBDA a : SetAttr(a, "connected", FALSE))

\* SSHManager.disconnect
Disconnect(s) ==
    IF ~s.connected
    THEN s
    ELSE Bind(SSHDisconnect(s, TRUE), LAMBDA a : HandleDisconnect(a))

\* a bug: the session is not disconnected when the probe fails
HandlePingErrorNoDisconnect(s) ==
    Bind(IF s.online THEN ResetCommands(s) ELSE s, LAMBDA b :
    Bind(IF b.request = "turn_off" THEN SetAttr(b, "request", None) ELSE b, LAMBDA c :
    Bind(IF c.request = "restart" THEN SetAttr(c, "request", "turn_on") ELSE c, LAMBDA d :
    SetAttr(d, "online", FALSE))))

\* a bug: a pending restart survives the failed probe
HandlePingErrorKeepRestart(s) ==
    Bind(IF s.connected THEN Disconnect(s) ELSE s, LAMBDA a :
    Bind(IF a.online THEN ResetCommands(a) ELSE a, LAMBDA b :
    Bind(IF b.request = "turn_off" THEN SetAttr(b, "request", None) ELSE b, LAMBDA c :
    SetAttr(c, "online", FALSE))))

\* State.handle_ping_error
HandlePingError(s) ==
    Bind(IF s.connected THEN Disconnect(s) ELSE s, LAMBDA a :
    Bind(IF a.online THEN ResetCommands(a) ELSE a, LAMBDA b :
    Bind(IF b.request = "turn_off" THEN SetAttr(b, "request", None) ELSE b, LAMBDA c :
    Bind(IF c.request = "restart" THEN SetAttr(c, "request", "turn_on") ELSE c, LAMBDA d :
    SetAttr(d, "online", FALSE)))))

\* a bug: online is set only when a pending turn_on is promoted
HandlePingSuccessStale(s) ==
    IF s.request = "turn_on"
    THEN Bind(SetAttr(s, "request", "connect"), LAMBDA a : SetAttr(a, "online", TRUE))
    ELSE s

\* a bug: a pending turn_on is not promoted
HandlePingSuccessNoPromote(s) == SetAttr(s, "online", TRUE)

\* State.handle_ping_success
HandlePingSuccess(s) ==
    Bind(IF s.request = "turn_on" THEN SetAttr(s, "request", "connect") ELSE s, LAMBDA a :
    SetAttr(a, "online", TRUE))

\* a bug: the cached data survives an authentication error
HandleAuthErrorNoReset(s) == SetAttr(s, "error", TRUE)

\* State.handle_auth_error
HandleAuthError(s) == Bind(ResetCommands(s), LAMBDA a : SetAttr(a, "error", TRUE))

\* a bug: a transport fault is handled as an authentication error
HandleConnectErrorAsAuth(s) ==
    Bind(ResetCommands(s), LAMBDA a : SetAttr(a, "error", TRUE))

\* State.handle_connect_error
HandleConnectError(s) == ResetCommands(s)

\* a bug: a successful connect clears whatever request is pending
HandleConnectSuccessClearsAny(s) ==
    Bind(SetAttr(s, "request", None), LAMBDA a :
    Bind(SetAttr(a, "connected", TRUE), LAMBDA b :
    SetAttr(b, "error", FALSE)))

\* State.handle_connect_success
HandleConnectSuccess(s) ==
    Bind(IF s.request = "connect" THEN SetAttr(s, "request", None) ELSE s, LAMBDA a :
    Bind(SetAttr(a, "connected", TRUE), LAMBDA b :
    SetAttr(b, "error", FALSE)))

\* State.handle_execute_error
HandleExecuteError(s) == ResetCommands(s)

\* State.handle_turn_on
HandleTurnOn(s) == SetAttr(s, "request", "turn_on")

\* State.handle_turn_off
HandleTurnOff(s) == SetAttr(s, "request", "turn_off")

\* State.handle_restart
HandleRestart(s) == SetAttr(s, "request", "restart")

----------------------------------------------------------------------------
(* ping.py: class Ping *)

\* Ping.async_ping: test the ICMP sockets once, probe with icmplib or with the ping
\* process; OfflineError when the host does not answer and when anything fails
PingAsyncPing(s, test, po) ==
    IF s.use_icmplib = None /\ test = "fault"
    THEN Raise([s EXCEPT !.probed = "fail"], OfflineError)
    ELSE Bind(IF s.use_icmplib = None
              THEN [s EXCEPT !.use_icmplib = IF test = "ok" THEN "True" ELSE "False"]
              ELSE s,
              LAMBDA a :
         IF po = "alive"
         THEN [a EXCEPT !.probed = "ok"]
         ELSE Raise([a EXCEPT !.probed = "fail"], OfflineError))

\* the inputs of one probe that matter in s: the test runs only while
\* use_icmplib is None, and no probe follows a test that failed
PingInputs(s) ==
    IF s.use_icmplib = None
    THEN {[test |-> "fault", po |-> "dead"]}
         \cup {[test |-> x, po |-> o] : x \in IcmplibTests \ {"fault"},
                                        o \in PingOutcomes}
    ELSE {[test |-> "ok", po |-> o] : o \in PingOutcomes}

----------------------------------------------------------------------------
(* ssh.py: class SSH *)

IsExecutionError(exc) ==
    exc \in {ExecutionError, ExecutionTimeout, ExecutionNotConnected,
             ExecutionConnectFailed}

ClientConnectTrusting(s, env) ==
    IF ~env.reach THEN "failed"
    ELSE IF ~env.auth THEN "auth"
    ELSE "ok"

\* paramiko.SSHClient.connect under the missing host key policy set in SSH.__init__:
\* CustomRejectPolicy raises SSHHostKeyUnknownError, AutoAddPolicy accepts the key
ClientConnect(s, env) ==
    IF ~env.reach THEN "failed"
    ELSE IF ~env.known /\ ~s.add_host_keys THEN "hostkey"
    ELSE IF ~env.auth THEN "auth"
    ELSE "ok"

\* the host key the server offers when it is reached
Offered(s, env) ==
    [s EXCEPT !.host_key = IF ~env.reach THEN "none"
                           ELSE IF env.known THEN "known" ELSE "unknown"]

\* the connect attempt on the transport: paramiko closes nothing when it fails, so
\* until it is closed the client may hold an open socket whatever the outcome
Attempt(s, res) ==
    [s EXCEPT !.attempts = @ + 1, !.verdict = res,
              !.client = IF res = "ok" THEN "session" ELSE "open",
              !.auth_failed = IF res = "failed" THEN @ ELSE res # "ok"]

\* a bug: every failed connect is taken for an authentication error
SSHConnectAllAuth(s, env) ==
    IF s.connected
    THEN s
    ELSE Bind(ClientConnect(s, env), LAMBDA res :
         Bind(Attempt(Offered(s, env), res), LAMBDA a :
           IF res = "ok"
           THEN Bind(SetAttr(a, "connected", TRUE), LAMBDA b :
                    SetAttr(b, "error", FALSE))
           ELSE Bind(SSHDisconnect(a, TRUE), LAMBDA b :
                Bind(SetAttr(b, "error", TRUE), LAMBDA c :
                    Raise(c, IF res = "hostkey" THEN SSHHostKeyUnknownError
                             ELSE SSHAuthenticationError)))))

\* SSH.connect
SSHConnect(s, env) ==
    IF s.connected
    THEN s
    ELSE Bind(ClientConnect(s, env), LAMBDA res :
         Bind(Attempt(Offered(s, env), res), LAMBDA a :
           CASE res = "hostkey" ->
                  Bind(SSHDisconnect(a, TRUE), LAMBDA b :
                  Bind(SetAttr(b, "error", TRUE), LAMBDA c :
                      Raise(c, SSHHostKeyUnknownError)))
             [] res = "auth" ->
                  Bind(SSHDisconnect(a, TRUE), LAMBDA b :
                  Bind(SetAttr(b, "error", TRUE), LAMBDA c :
                      Raise(c, SSHAuthenticationError)))
             [] res = "failed" ->
                  Bind(SSHDisconnect(a, TRUE), LAMBDA b : Raise(b, SSHConnectError))
             [] OTHER ->
                  Bind(SetAttr(a, "connected", TRUE), LAMBDA b :
                      SetAttr(b, "error", FALSE))))

\* SSH._execute: exec_command, then read stdout, stderr and the exit status
Execute(s, eo) ==
    CASE eo = "open_fail" -> Raise(s, ExecutionError)
      [] eo = "read_timeout" -> Raise(s, TimeoutError)
      [] eo = "read_fail" -> Raise(s, ExecutionError)
      [] OTHER -> s

\* SSH._execute_invoke_shell: open the shell, send the lines, read, parse
ExecuteInvokeShell(s, eo) ==
    CASE eo \in {"open_fail", "send_fail"} -> Raise(s, ExecutionError)
      [] eo = "read_timeout" -> Raise(s, TimeoutError)
      [] eo \in {"read_fail", "parse_fail"} -> Raise(s, ExecutionError)
      [] OTHER -> s

\* a bug: a command that fails leaves the session connected
SSHTryExecuteKeep(a, eo) ==
    Bind(IF a.invoke_shell
         THEN ExecuteInvokeShell([a EXCEPT !.executed = eo], eo)
         ELSE Execute([a EXCEPT !.executed = eo], eo),
         LAMBDA r :
    Bind(IF r.raised = TimeoutError THEN Raise(r, ExecutionTimeout) ELSE r,
         LAMBDA h :
    IF h.disconnect_mode /\ h.connected
    THEN Bind(SSHDisconnect(Caught(h), FALSE), LAMBDA d : Raise(d, h.raised))
    ELSE h))

\* the try statement of SSH.execute_command_string, on a connected session
SSHTryExecute(a, eo) ==
    Bind(IF a.invoke_shell
         THEN ExecuteInvokeShell([a EXCEPT !.executed = eo], eo)
         ELSE Execute([a EXCEPT !.executed = eo], eo),
         LAMBDA r :
    Bind(CASE r.raised = TimeoutError -> Raise(r, ExecutionTimeout)
           [] r.raised = ExecutionError ->
                Bind(SSHDisconnect(Caught(r), TRUE), LAMBDA d :
                    Raise(d, ExecutionError))
           [] OTHER -> r,
         LAMBDA h :
    \* finally
    IF h.disconnect_mode /\ h.connected
    THEN Bind(SSHDisconnect(Caught(h), FALSE), LAMBDA d : Raise(d, h.raised))
    ELSE h))

\* SSH.execute_command_string
SSHExecuteCommandString(s, env, eo) ==
    Bind(IF s.disconnect_mode /\ s.online /\ ~s.connected
         THEN Bind(SSHConnect(s, env), LAMBDA c :
                  IF c.raised # None THEN Raise(c, ExecutionConnectFailed) ELSE c)
         ELSE s,
         LAMBDA a :
    IF a.raised # None THEN a
    ELSE IF ~a.connected THEN Raise(a, ExecutionNotConnected)
    ELSE SSHTryExecute(a, eo))

----------------------------------------------------------------------------
(* manager.py: class SSHManager *)

IsUpOnlineOnly(s) == IF s.disconnect_mode THEN s.online ELSE s.connected

\* SSHManager.is_up
IsUp(s) ==
    IF s.disconnect_mode
    THEN s.online /\ s.request # "connect"
    ELSE s.connected

\* SSHManager.is_shutting_down
IsShuttingDown(s) == s.request \in {"turn_off", "restart"}

\* SSHManager.async_ping
AsyncPing(s, p) ==
    Bind(PingAsyncPing(s, p.test, p.po), LAMBDA r :
        IF r.raised = OfflineError
        THEN Bind(HandlePingError(Caught(r)), LAMBDA a : Raise(a, OfflineError))
        ELSE HandlePingSuccess(r))

\* the except and else clauses of SSHManager.async_connect
ConnectHandlers(r) ==
    IF r.raised \in {SSHHostKeyUnknownError, SSHAuthenticationError}
    THEN Bind(HandleAuthError(Caught(r)), LAMBDA a : Raise(a, r.raised))
    ELSE IF r.raised = SSHConnectError
    THEN Bind(HandleConnectError(Caught(r)), LAMBDA a : Raise(a, r.raised))
    ELSE HandleConnectSuccess(r)

\* a bug: connect() does not return early when a session is already open
AsyncConnectNoGuard(s, env) ==
    IF ~s.online THEN Raise(s, SSHConnectError)
    ELSE IF IsShuttingDown(s) THEN Raise(s, SSHConnectError)
    ELSE Bind(SSHConnect([s EXCEPT !.connected = FALSE], env), LAMBDA r :
             ConnectHandlers(r))

\* a bug: connect() does not refuse a host that is shutting down
AsyncConnectWhileShuttingDown(s, env) ==
    IF s.connected THEN s
    ELSE IF ~s.online THEN Raise(s, SSHConnectError)
    ELSE Bind(SSHConnect(s, env), LAMBDA r : ConnectHandlers(r))

\* SSHManager.async_connect
AsyncConnect(s, env) ==
    IF s.connected THEN s
    ELSE IF ~s.online THEN Raise(s, SSHConnectError)
    ELSE IF IsShuttingDown(s) THEN Raise(s, SSHConnectError)
    ELSE Bind(SSHConnect(s, env), LAMBDA r : ConnectHandlers(r))

\* SSHManager.async_close
AsyncClose(s) == Bind(Disconnect(s), LAMBDA a : SetAttr(a, "online", FALSE))

\* SSHManager.async_execute_command_string
AsyncExecuteCommandString(s, env, eo) ==
    Bind(IF s.disconnect_mode
         THEN Bind(AsyncConnect(s, env), LAMBDA c :
                  IF c.raised # None THEN Raise(c, ExecutionConnectFailed) ELSE c)
         ELSE s,
         LAMBDA a :
    IF a.raised # None THEN a
    ELSE IF ~a.connected THEN Raise(a, ExecutionNotConnected)
    ELSE Bind(SSHExecuteCommandString(a, env, eo), LAMBDA r :
           IF r.raised = TimeoutError
           THEN Raise(r, ExecutionTimeout)
           ELSE IF IsExecutionError(r.raised)
           THEN Bind(HandleExecuteError(Caught(r)), LAMBDA h : Raise(h, r.raised))
           ELSE IF r.disconnect_mode THEN Disconnect(r) ELSE r))

\* the inputs of one command: what its connect meets (disconnect mode only) and
\* what the command meets on the channel
OkEnv == [reach |-> TRUE, known |-> TRUE, auth |-> TRUE]

OkCmd == [env |-> OkEnv, eo |-> "ok"]

ExecInputs(s) == IF s.invoke_shell THEN ExecOutcomes ELSE ExecOutcomes \ ShellOnly

\* the inputs that matter in s: a command connects only in disconnect mode, and
\* runs only on a connected session
CmdInputs(s) ==
    IF s.connected
    THEN {[env |-> OkEnv, eo |-> o] : o \in ExecInputs(s)}
    ELSE IF s.disconnect_mode /\ s.online /\ ~IsShuttingDown(s)
    THEN UNION {{[env |-> e, eo |-> o] :
                    o \in (IF ClientConnect(s, e) = "ok"
                           THEN ExecInputs(s) ELSE {"ok"})} : e \in ConnectEnvs}
    ELSE {OkCmd}

\* the inputs of the commands of one async_update
CmdSeqs(s) ==
    {<<>>} \cup UNION {[1..n -> CmdInputs(s)] : n \in 1..MaxCmds}

\* Manager.async_update of terminal_manager: run the commands that are due through
\* async_execute_command_string, cache the output of those that succeed, and with
\* raise_errors raise the first ExecutionError when done
RECURSIVE RunCommands(_, _)
RunCommands(s, cmds) ==
    IF cmds = <<>>
    THEN s
    ELSE Bind(AsyncExecuteCommandString(Caught(s), Head(cmds).env, Head(cmds).eo),
              LAMBDA r :
         Bind(IF r.raised = None
              THEN Raise([r EXCEPT !.cache = "fresh"], s.raised)
              ELSE Raise(r, IF s.raised # None THEN s.raised ELSE r.raised),
              LAMBDA t :
         RunCommands(t, Tail(cmds))))

SuperAsyncUpdate(s, cmds, re) ==
    Bind(RunCommands(s, cmds), LAMBDA r : IF re THEN r ELSE Caught(r))

\* a bug: the magic packet is sent to a host that is online as well
AsyncTurnOnAlways(s, mac) ==
    IF ~mac THEN Raise(s, ValueError) ELSE HandleTurnOn(s)

\* SSHManager.mac_address is its own or the base Manager's: mac says whether one is set
\* SSHManager.async_turn_on
AsyncTurnOn(s, mac) ==
    IF s.online THEN s
    ELSE IF ~mac THEN Raise(s, ValueError)
    ELSE HandleTurnOn(s)

\* Manager.async_turn_off and Manager.async_restart of terminal_manager: refuse
\* (PermissionError, KeyError) or run the action command
SuperAction(s, allowed, c) ==
    IF ~allowed
    THEN Raise(s, ActionError)
    ELSE AsyncExecuteCommandString(s, c.env, c.eo)

\* a bug: the session is closed and the request set whether the action ran or not
AsyncTurnOffRegardless(s, allowed, c) ==
    Bind(SuperAction(s, allowed, c), LAMBDA r :
    Bind(Disconnect(Caught(r)), LAMBDA d :
    Bind(HandleTurnOff(d), LAMBDA h : Raise(h, r.raised))))

\* SSHManager.async_turn_off
AsyncTurnOff(s, allowed, c) ==
    Bind(SuperAction(s, allowed, c), LAMBDA r :
        IF r.raised # None
        THEN r
        ELSE Bind(Disconnect(r), LAMBDA d : HandleTurnOff(d)))

\* SSHManager.async_restart
AsyncRestart(s, allowed, c) ==
    Bind(SuperAction(s, allowed, c), LAMBDA r :
        IF r.raised # None
        THEN r
        ELSE Bind(Disconnect(r), LAMBDA d : HandleRestart(d)))

SwallowNothing(s, exc, re) == s

SwallowAll(s, exc, re) == IF ~re THEN Caught(s) ELSE s

\* an exception the update swallows unless the caller asked for raise_errors
Swallow(s, exc, re) ==
    IF s.raised = exc /\ ~re THEN Caught(s) ELSE s

----------------------------------------------------------------------------
(* The operations of one SSHManager, called one at a time. *)

Commit(r, op) ==
    /\ lastOp = "idle"
    /\ online' = r.online
    /\ connected' = r.connected
    /\ request' = r.request
    /\ error' = r.error
    /\ request_timestamp' = r.request_timestamp
    /\ client' = r.client
    /\ use_icmplib' = r.use_icmplib
    /\ cache' = r.cache
    /\ raised' = r.raised
    /\ notified' = r.notified
    /\ attempts' = r.attempts
    /\ probed' = r.probed
    /\ verdict' = r.verdict
    /\ host_key' = r.host_key
    /\ raise_errors' = r.raise_errors
    /\ returned' = r.returned
    /\ steps' = r.steps
    /\ executed' = r.executed
    /\ expired' = r.expired
    /\ auth_failed' = r.auth_failed
    /\ lastOp' = op
    /\ UNCHANGED <<now, disconnect_mode, invoke_shell, add_host_keys, channel>>

Init ==
    /\ online = FALSE
    /\ connected = FALSE
    /\ request = None
    /\ error = FALSE
    /\ request_timestamp = 0
    /\ client = "closed"
    /\ use_icmplib = None
    /\ cache = "reset"
    /\ now = 0
    /\ disconnect_mode \in BOOLEAN
    /\ invoke_shell \in BOOLEAN
    /\ add_host_keys \in BOOLEAN
    /\ lastOp = "idle"
    /\ raised = None
    /\ notified = 0
    /\ attempts = 0
    /\ probed = "none"
    /\ verdict = "none"
    /\ host_key = "none"
    /\ raise_errors = FALSE
    /\ returned = <<>>
    /\ steps = <<>>
    /\ stdin = <<>>
    /\ stdout_bytes = <<>>
    /\ answers = <<>>
    /\ terminal = FALSE
    /\ executed = None
    /\ expired = None
    /\ auth_failed = FALSE

\* the caller takes the result of the operation that ended
Return ==
    /\ lastOp # "idle"
    /\ lastOp' = "idle"
    /\ raised' = None
    /\ notified' = 0
    /\ attempts' = 0
    /\ probed' = "none"
    /\ verdict' = "none"
    /\ host_key' = "none"
    /\ raise_errors' = FALSE
    /\ returned' = <<>>
    /\ steps' = <<>>
    /\ executed' = None
    /\ expired' = None
    /\ UNCHANGED <<online, connected, request, error, request_timestamp, client,
                   use_icmplib, cache, now, disconnect_mode, invoke_shell,
                   add_host_keys, auth_failed, channel>>

\* time passes between two operations
Advance ==
    /\ lastOp = "idle"
    /\ \E d \in {TickShort, TickLong} :
         /\ now + d <= MaxTime
         /\ now' = now + d
    /\ UNCHANGED <<online, connected, request, error, request_timestamp, client,
                   use_icmplib, cache, disconnect_mode, invoke_shell, add_host_keys,
                   lastOp, raised, notified, attempts, probed, verdict, host_key,
                   raise_errors, returned, steps, executed, expired, auth_failed,
                   channel>>

\* the connect inputs that matter in s: none when the call returns or raises before
\* the transport is tried
ConnectInputs(s) ==
    IF s.connected \/ ~s.online \/ IsShuttingDown(s) THEN {OkEnv} ELSE ConnectEnvs

Ping ==
    /\ lastOp = "idle"
    /\ \E p \in PingInputs(Cur) :
         \E r \in {AsyncPing(Cur, p)} : Commit(r, "ping")

Connect ==
    /\ lastOp = "idle"
    /\ \E env \in ConnectInputs(Cur) :
         \E r \in {AsyncConnect(Cur, env)} : Commit(r, "connect")

ManagerDisconnect ==
    /\ lastOp = "idle"
    /\ \E r \in {Disconnect(Cur)} : Commit(r, "disconnect")

Close ==
    /\ lastOp = "idle"
    /\ \E r \in {AsyncClose(Cur)} : Commit(r, "close")

ExecuteCommandString ==
    /\ lastOp = "idle"
    /\ \E c \in CmdInputs(Cur) :
         \E r \in {AsyncExecuteCommandString(Cur, c.env, c.eo)} :
             Commit(r, "execute")

TurnOn ==
    /\ lastOp = "idle"
    /\ \E mac \in BOOLEAN :
         \E r \in {AsyncTurnOn(Cur, mac)} : Commit(r, "turn_on")

TurnOff ==
    /\ lastOp = "idle"
    /\ \E allowed \in BOOLEAN :
         \E c \in (IF allowed THEN CmdInputs(Cur) ELSE {OkCmd}) :
             \E r \in {AsyncTurnOff(Cur, allowed, c)} : Commit(r, "turn_off")

Restart ==
    /\ lastOp = "idle"
    /\ \E allowed \in BOOLEAN :
         \E c \in (IF allowed THEN CmdInputs(Cur) ELSE {OkCmd}) :
             \E r \in {AsyncRestart(Cur, allowed, c)} : Commit(r, "restart")

\* a step of SSHManager.async_update and whether it went through without raising
Step(s, name) == [s EXCEPT !.steps = Append(@, [step |-> name, ok |-> s.raised = None])]

\* a bug: the update goes on to the probe after the session attempt succeeded
UpdateNoReturn ==
    /\ lastOp = "idle"
    /\ \E re \in BOOLEAN :
       \E s0 \in {HandleUpdate([Cur EXCEPT !.raise_errors = re])} :
       \E session \in {s0.connected /\ ~s0.disconnect_mode} :
       \E c1 \in (IF session THEN CmdSeqs(s0) ELSE {<<>>}) :
       \E s1 \in {IF session
                  THEN Step(SuperAsyncUpdate(s0, c1, TRUE), "session")
                  ELSE s0} :
       \E p \in PingInputs(s1) :
       \E s2 \in {Step(AsyncPing(Caught(s1), p), "probe")} :
           IF s2.raised = OfflineError
           THEN Commit(Swallow(s2, OfflineError, re), "update")
           ELSE
       \E env \in (IF s2.disconnect_mode THEN {OkEnv} ELSE ConnectInputs(s2)) :
       \E s3 \in {IF s2.disconnect_mode
                  THEN s2
                  ELSE Step(AsyncConnect(s2, env), "connect")} :
           IF s3.raised # None
           THEN Commit(Swallow(s3, SSHConnectError, re), "update")
           ELSE
       \E c2 \in CmdSeqs(s3) :
       \E s4 \in {Step(SuperAsyncUpdate(s3, c2, re), "commands")} :
           Commit(s4, "update")

\* SSHManager.async_update, its steps in the order of the code: the existing
\* session, the probe, the connect, the commands
Update ==
    /\ lastOp = "idle"
    /\ \E re \in BOOLEAN :
       \E s0 \in {HandleUpdate([Cur EXCEPT !.raise_errors = re])} :
       \E session \in {s0.connected /\ ~s0.disconnect_mode} :
       \E c1 \in (IF session THEN CmdSeqs(s0) ELSE {<<>>}) :
       \E s1 \in {IF session
                  THEN Step(SuperAsyncUpdate(s0, c1, TRUE), "session")
                  ELSE s0} :
           IF session /\ s1.raised = None
           THEN Commit(s1, "update")
           ELSE
       \E p \in PingInputs(s1) :
       \E s2 \in {Step(AsyncPing(Caught(s1), p), "probe")} :
           IF s2.raised = OfflineError
           THEN Commit(Swallow(s2, OfflineError, re), "update")
           ELSE
       \E env \in (IF s2.disconnect_mode THEN {OkEnv} ELSE ConnectInputs(s2)) :
       \E s3 \in {IF s2.disconnect_mode
                  THEN s2
                  ELSE Step(AsyncConnect(s2, env), "connect")} :
           IF s3.raised # None
           THEN Commit(Swallow(s3, SSHConnectError, re), "update")
           ELSE
       \E c2 \in CmdSeqs(s3) :
       \E s4 \in {Step(SuperAsyncUpdate(s3, c2, re), "commands")} :
           Commit(s4, "update")

\* a caller reads SSHManager.is_up
ReadIsUp ==
    /\ lastOp = "idle"
    /\ \E r \in {[Cur EXCEPT !.returned = <<IsUp(Cur)>>]} : Commit(r, "is_up")

Next ==
    \/ Advance
    \/ Return
    \/ ReadIsUp
    \/ Ping
    \/ Connect
    \/ ManagerDisconnect
    \/ Close
    \/ ExecuteCommandString
    \/ Update
    \/ TurnOn
    \/ TurnOff
    \/ Restart

Spec == Init /\ [][Next]_vars

\* the smaller of two numbers
Least(a, b) == IF a < b THEN a ELSE b

\* time() of state.py on a clock that never stops: the age of the request grows
\* by the tick; once the clock reads MaxTime the age is carried by
\* request_timestamp, and an age of MaxTime or more is kept as MaxTime, which is
\* over every budget of TIMEOUTS
Tick ==
    /\ lastOp = "idle"
    /\ \E d \in {TickShort, TickLong} :
         /\ now' = Least(now + d, MaxTime)
         /\ request_timestamp' = now' - Least(now - request_timestamp + d, now')
    /\ UNCHANGED <<online, connected, request, error, client,
                   use_icmplib, cache, disconnect_mode, invoke_shell, add_host_keys,
                   lastOp, raised, notified, attempts, probed, verdict, host_key,
                   raise_errors, returned, steps, executed, expired, auth_failed,
                   channel>>

NextLive ==
    \/ Tick
    \/ Return
    \/ ReadIsUp
    \/ Ping
    \/ Connect
    \/ ManagerDisconnect
    \/ Close
    \/ ExecuteCommandString
    \/ Update
    \/ TurnOn
    \/ TurnOff
    \/ Restart

\* the host is polled for ever: every call returns, update ticks keep occurring
\* and time keeps advancing
SpecLive ==
    /\ Init
    /\ [][NextLive]_vars
    /\ WF_vars(Return)
    /\ SF_vars(Update)
    /\ SF_vars(Tick)

----------------------------------------------------------------------------
(* Direct assignments to the fields of a State object. *)

\* State.update of the State in __init__.py
StateUpdate(s, name, value) ==
    IF s[name] = value
    THEN s
    ELSE [s EXCEPT ![name] = value, !.notified = @ + 1]

\* the values a field of State takes
FieldValues(name) == IF name = "request" THEN Request \cup {None} ELSE BOOLEAN

\* any State object, at any time of the clock
InitSetAttr ==
    /\ online \in BOOLEAN
    /\ connected \in BOOLEAN
    /\ request \in Request \cup {None}
    /\ error \in BOOLEAN
    /\ now \in {0, TickShort, TickLong, MaxTime}
    /\ request_timestamp \in {0, now}
    /\ client = "closed"
    /\ use_icmplib = None
    /\ cache = "reset"
    /\ disconnect_mode = FALSE
    /\ invoke_shell = FALSE
    /\ add_host_keys = FALSE
    /\ lastOp = "idle"
    /\ raised = None
    /\ notified = 0
    /\ attempts = 0
    /\ probed = "none"
    /\ verdict = "none"
    /\ host_key = "none"
    /\ raise_errors = FALSE
    /\ returned = <<>>
    /\ steps = <<>>
    /\ stdin = <<>>
    /\ stdout_bytes = <<>>
    /\ answers = <<>>
    /\ terminal = FALSE
    /\ executed = None
    /\ expired = None
    /\ auth_failed = FALSE

\* state.<name> = value
SetAttribute ==
    /\ lastOp = "idle"
    /\ \E name \in STATE_NAMES :
       \E value \in FieldValues(name) :
       \E r \in {SetAttr(Cur, name, value)} : Commit(r, "setattr")

\* state.update(name, value)
UpdateAttribute ==
    /\ lastOp = "idle"
    /\ \E name \in {"online", "connected", "error"} :
       \E value \in FieldValues(name) :
       \E r \in {StateUpdate(Cur, name, value)} : Commit(r, "state_update")

NextSetAttr ==
    \/ Return
    \/ SetAttribute
    \/ UpdateAttribute

SpecSetAttr == InitSetAttr /\ [][NextSetAttr]_vars

----------------------------------------------------------------------------
(* The handlers of a State object, called on any State object. *)

StateHandleUpdate ==
    /\ lastOp = "idle"
    /\ \E r \in {HandleUpdate(Cur)} : Commit(r, "handle_update")

StateHandlePingError ==
    /\ lastOp = "idle"
    /\ \E r \in {HandlePingError(Cur)} : Commit(r, "handle_ping_error")

StateHandlePingSuccess ==
    /\ lastOp = "idle"
    /\ \E r \in {HandlePingSuccess(Cur)} : Commit(r, "handle_ping_success")

StateHandleAuthError ==
    /\ lastOp = "idle"
    /\ \E r \in {HandleAuthError(Cur)} : Commit(r, "handle_auth_error")

StateHandleConnectError ==
    /\ lastOp = "idle"
    /\ \E r \in {HandleConnectError(Cur)} : Commit(r, "handle_connect_error")

StateHandleConnectSuccess ==
    /\ lastOp = "idle"
    /\ \E r \in {HandleConnectSuccess(Cur)} : Commit(r, "handle_connect_success")

StateHandleDisconnect ==
    /\ lastOp = "idle"
    /\ \E r \in {HandleDisconnect(Cur)} : Commit(r, "handle_disconnect")

StateHandleExecuteError ==
    /\ lastOp = "idle"
    /\ \E r \in {HandleExecuteError(Cur)} : Commit(r, "handle_execute_error")

StateHandleTurnOn ==
    /\ lastOp = "idle"
    /\ \E r \in {HandleTurnOn(Cur)} : Commit(r, "handle_turn_on")

StateHandleTurnOff ==
    /\ lastOp = "idle"
    /\ \E r \in {HandleTurnOff(Cur)} : Commit(r, "handle_turn_off")

StateHandleRestart ==
    /\ lastOp = "idle"
    /\ \E r \in {HandleRestart(Cur)} : Commit(r, "handle_restart")

NextState ==
    \/ Return
    \/ StateHandleUpdate
    \/ StateHandlePingError
    \/ StateHandlePingSuccess
    \/ StateHandleAuthError
    \/ StateHandleConnectError
    \/ StateHandleConnectSuccess
    \/ StateHandleDisconnect
    \/ StateHandleExecuteError
    \/ StateHandleTurnOn
    \/ StateHandleTurnOff
    \/ StateHandleRestart

SpecState == InitSetAttr /\ [][NextState]_vars

----------------------------------------------------------------------------
(* terminal.py: class SSHTerminal, its operations called one at a time.  The  *)
(* client's missing host key policy is that of ClientConnect.                 *)

\* SSHTerminal._disconnect
TerminalDisconnect(s) == [s EXCEPT !.client = "closed"]

\* SSHTerminal._connect
TerminalConnect(s, env) ==
    Bind(ClientConnect(s, env), LAMBDA res :
    Bind(Attempt(Offered(s, env), res), LAMBDA a :
      CASE res = "hostkey" -> Raise(a, HostKeyUnknownError)
        [] res = "auth" -> Raise(a, AuthenticationError)
        [] res = "failed" ->
             Bind(TerminalDisconnect(a), LAMBDA b : Raise(b, ConnectError))
        [] OTHER -> a))

\* SSHTerminal._execute_without_shell
ExecuteWithoutShell(s, eo) ==
    CASE eo = "open_fail" -> Raise(s, ExecutionError)
      [] eo = "read_timeout" -> Raise(s, TimeoutError)
      [] eo = "read_fail" -> Raise(s, ExecutionError)
      [] OTHER -> s

\* SSHTerminal._execute_with_shell
ExecuteWithShell(s, eo) ==
    CASE eo \in {"open_fail", "send_fail"} -> Raise(s, ExecutionError)
      [] eo = "read_timeout" -> Raise(s, TimeoutError)
      [] eo \in {"read_fail", "parse_fail"} -> Raise(s, ExecutionError)
      [] OTHER -> s

\* SSHTerminal._execute
TerminalExecute(s, eo) ==
    Bind([s EXCEPT !.executed = eo], LAMBDA a :
        IF a.invoke_shell THEN ExecuteWithShell(a, eo) ELSE ExecuteWithoutShell(a, eo))

\* what a command can meet in s: a channel opens only on an authenticated session
TerminalExecInputs(s) ==
    IF s.client = "session" THEN ExecInputs(s) ELSE {"open_fail"}

\* an SSHTerminal after construction; it has no disconnect mode
InitTerminal ==
    /\ Init
    /\ disconnect_mode = FALSE

\* SSHTerminal.async_ping
TerminalPing ==
    /\ lastOp = "idle"
    /\ \E p \in PingInputs(Cur) :
       \E r \in {PingAsyncPing(Cur, p.test, p.po)} : Commit(r, "ping")

\* SSHTerminal.async_connect
TerminalAsyncConnect ==
    /\ lastOp = "idle"
    /\ \E env \in ConnectEnvs :
       \E r \in {TerminalConnect(Cur, env)} : Commit(r, "connect")

\* SSHTerminal.async_disconnect
TerminalAsyncDisconnect ==
    /\ lastOp = "idle"
    /\ \E r \in {TerminalDisconnect(Cur)} : Commit(r, "disconnect")

\* SSHTerminal.async_execute
TerminalAsyncExecute ==
    /\ lastOp = "idle"
    /\ \E eo \in TerminalExecInputs(Cur) :
       \E r \in {TerminalExecute(Cur, eo)} : Commit(r, "execute")

NextTerminal ==
    \/ Return
    \/ TerminalPing
    \/ TerminalAsyncConnect
    \/ TerminalAsyncDisconnect
    \/ TerminalAsyncExecute

SpecTerminal == InitTerminal /\ [][NextTerminal]_vars

----------------------------------------------------------------------------
(* __init__.py: the SSHManager that holds its paramiko client itself, with the  *)
(* State whose fields are set through State.update.  It has no requests and no *)
(* interactive shell.                                                          *)

CommandError == "CommandError"
\* whatever PingClient.async_ping raises
PingFault == "Exception"

\* what a command meets on the channel: close_fail is a read that times out on a
\* channel that then fails to close
LegacyExecOutcomes == {"ok", "open_fail", "read_timeout", "close_fail", "read_fail"}

\* SSHManager.is_up
LegacyIsUp(s) == IF s.disconnect_mode THEN s.online ELSE s.connected

\* SSHManager._disconnect
LegacyDisconnect(s, clear_sensor_commands) ==
    Bind([s EXCEPT !.client = "closed"], LAMBDA a :
    Bind(StateUpdate(a, "connected", FALSE), LAMBDA b :
        IF clear_sensor_commands THEN [b EXCEPT !.cache = "reset"] ELSE b))

\* SSHManager._connect
LegacyConnect(s, env) ==
    IF s.connected
    THEN s
    ELSE Bind(ClientConnect(s, env), LAMBDA res :
         Bind(Attempt(Offered(s, env), res), LAMBDA a :
           CASE res = "hostkey" ->
                  Bind(LegacyDisconnect(a, TRUE), LAMBDA b :
                  Bind(StateUpdate(b, "error", TRUE), LAMBDA c :
                      Raise(c, SSHHostKeyUnknownError)))
             [] res = "auth" ->
                  Bind(LegacyDisconnect(a, TRUE), LAMBDA b :
                  Bind(StateUpdate(b, "error", TRUE), LAMBDA c :
                      Raise(c, SSHAuthenticationError)))
             [] res = "failed" ->
                  Bind(LegacyDisconnect(a, TRUE), LAMBDA b :
                      Raise(b, SSHConnectError))
             [] OTHER ->
                  Bind(StateUpdate(a, "connected", TRUE), LAMBDA b :
                      StateUpdate(b, "error", FALSE))))

\* SSHManager._execute_command_string, from exec_command on
LegacyRun(a, eo) ==
    CASE eo \in {"open_fail", "read_fail", "close_fail"} ->
           Bind(LegacyDisconnect(a, TRUE), LAMBDA d : Raise(d, CommandError))
      [] eo = "read_timeout" -> Raise(a, CommandError)
      [] OTHER -> IF a.disconnect_mode THEN LegacyDisconnect(a, FALSE) ELSE a

\* SSHManager._execute_command_string
LegacyExecuteCommandString(s, env, eo) ==
    Bind(IF s.disconnect_mode /\ s.online /\ ~s.connected
         THEN Bind(LegacyConnect(s, env), LAMBDA c :
                  IF c.raised # None THEN Raise(c, CommandError) ELSE c)
         ELSE s,
         LAMBDA a :
    IF a.raised # None THEN a
    ELSE IF ~a.connected THEN Raise(a, CommandError)
    ELSE LegacyRun([a EXCEPT !.executed = eo], eo))

\* the inputs of one command that matter in s
LegacyCmdInputs(s) ==
    IF s.connected
    THEN {[env |-> OkEnv, eo |-> o] : o \in LegacyExecOutcomes}
    ELSE IF s.disconnect_mode /\ s.online
    THEN UNION {{[env |-> e, eo |-> o] :
                    o \in (IF ClientConnect(s, e) = "ok"
                           THEN LegacyExecOutcomes ELSE {"ok"})} : e \in ConnectEnvs}
    ELSE {OkCmd}

\* Manager.async_update_sensor_commands of terminal_manager, as async_connect
\* calls it: run a sensor command through async_execute_command_string, cache
\* its output, and pass its CommandError on (propagate) or not
LegacyCommand(s, c, propagate) ==
    Bind(LegacyExecuteCommandString(s, c.env, c.eo), LAMBDA r :
        IF r.raised = None
        THEN [r EXCEPT !.cache = "fresh"]
        ELSE IF propagate THEN r ELSE Caught(r))

\* SSHManager.async_connect
LegacyAsyncConnect(s, env, c, propagate) ==
    IF s.disconnect_mode
    THEN s
    ELSE Bind(LegacyConnect(s, env), LAMBDA r :
             IF r.raised # None THEN r ELSE LegacyCommand(r, c, propagate))

\* PingClient.async_ping: True, False, or whatever the probe raises
PingClientAsyncPing(s, test, po) ==
    IF s.use_icmplib = None /\ test = "fault"
    THEN Raise([s EXCEPT !.probed = "fail"], PingFault)
    ELSE Bind(IF s.use_icmplib = None
              THEN [s EXCEPT !.use_icmplib = IF test = "ok" THEN "True" ELSE "False"]
              ELSE s,
              LAMBDA a :
         CASE po = "alive" -> [a EXCEPT !.probed = "ok"]
           [] po = "dead" -> [a EXCEPT !.probed = "fail"]
           [] OTHER -> Raise([a EXCEPT !.probed = "fail"], PingFault))

\* SSHManager.async_update_state, from the probe on
LegacyProbeAndConnect(s, p, env, c, propagate) ==
    Bind(PingClientAsyncPing(s, p.test, p.po), LAMBDA r :
    Bind(StateUpdate(Caught(r), "online", r.raised = None /\ r.probed = "ok"),
         LAMBDA a :
    IF ~a.online
    THEN IF a.raise_errors THEN Raise(a, OfflineError) ELSE a
    ELSE Swallow(LegacyAsyncConnect(a, env, c, propagate), SSHConnectError,
                 a.raise_errors)))

\* SSHManager.async_update_state
LegacyAsyncUpdateState(s, test_cmd, p, env, c, propagate) ==
    IF s.connected
    THEN Bind(LegacyExecuteCommandString(s, test_cmd.env, test_cmd.eo), LAMBDA r :
             IF r.raised = None
             THEN r
             ELSE LegacyProbeAndConnect(Caught(r), p, env, c, propagate))
    ELSE LegacyProbeAndConnect(s, p, env, c, propagate)

\* SSHManager.async_close
LegacyAsyncClose(s) ==
    Bind(LegacyDisconnect(s, TRUE), LAMBDA a : StateUpdate(a, "online", FALSE))

\* SSHManager.async_turn_on
LegacyAsyncTurnOn(s, mac) == IF ~mac THEN Raise(s, ValueError) ELSE s

\* an SSHManager of __init__.py after construction
InitLegacy ==
    /\ Init
    /\ invoke_shell = FALSE

LegacyExecute ==
    /\ lastOp = "idle"
    /\ \E c \in LegacyCmdInputs(Cur) :
       \E r \in {LegacyExecuteCommandString(Cur, c.env, c.eo)} : Commit(r, "execute")

LegacyConnectOp ==
    /\ lastOp = "idle"
    /\ \E env \in (IF connected \/ disconnect_mode THEN {OkEnv} ELSE ConnectEnvs) :
       \E c \in (IF ~disconnect_mode /\ (connected \/ ClientConnect(Cur, env) = "ok")
                 THEN {[env |-> OkEnv, eo |-> o] : o \in LegacyExecOutcomes}
                 ELSE {OkCmd}) :
       \E propagate \in BOOLEAN :
       \E r \in {LegacyAsyncConnect(Cur, env, c, propagate)} : Commit(r, "connect")

LegacyDisconnectOp ==
    /\ lastOp = "idle"
    /\ \E r \in {LegacyDisconnect(Cur, TRUE)} : Commit(r, "disconnect")

LegacyUpdateState ==
    /\ lastOp = "idle"
    /\ \E re \in BOOLEAN :
       \E test_cmd \in (IF connected
                        THEN {[env |-> OkEnv, eo |-> o] : o \in LegacyExecOutcomes}
                        ELSE {OkCmd}) :
       \E p \in PingInputs(Cur) :
       \E env \in ConnectEnvs :
       \E o \in LegacyExecOutcomes :
       \E propagate \in BOOLEAN :
       \E r \in {LegacyAsyncUpdateState([Cur EXCEPT !.raise_errors = re], test_cmd,
                                        p, env, [env |-> OkEnv, eo |-> o],
                                        propagate)} :
           Commit(r, "update")

LegacyClose ==
    /\ lastOp = "idle"
    /\ \E r \in {LegacyAsyncClose(Cur)} : Commit(r, "close")

LegacyTurnOn ==
    /\ lastOp = "idle"
    /\ \E mac \in BOOLEAN :
       \E r \in {LegacyAsyncTurnOn(Cur, mac)} : Commit(r, "turn_on")

\* a caller reads SSHManager.is_up
LegacyReadIsUp ==
    /\ lastOp = "idle"
    /\ \E r \in {[Cur EXCEPT !.returned = <<LegacyIsUp(Cur)>>]} : Commit(r, "is_up")

NextLegacy ==
    \/ Return
    \/ LegacyReadIsUp
    \/ LegacyExecute
    \/ LegacyConnectOp
    \/ LegacyDisconnectOp
    \/ LegacyUpdateState
    \/ LegacyClose
    \/ LegacyTurnOn

SpecLegacy == InitLegacy /\ [][NextLegacy]_vars

----------------------------------------------------------------------------
(* ShellParser of ssh.py and of terminal.py.  A string is a sequence of tokens, *)
(* each token standing for the characters it spells; a control character or an *)
(* escape sequence is one token.                                               *)

CR == "\r"
LF == "\n"
BS == "<BS>"
NUL == "<NUL>"
\* an SGR colour sequence, matched by ANSI_ESCAPE
ANSI == "<ESC>[32m"
\* a window title sequence, matched by WIN_TITLE
TITLE == "<ESC>]0;cmd<BEL>"
\* a cursor move to column 1, matched by WIN_NEWLINE
WINNL == "<ESC>[2;1H"

END == "__exit_code__"
PS_CODE == "$LastExitCode"
LINUX_CODE == "$?"
CMD_CODE == "%errorlevel%"
BASH_PIPE == "${PIPESTATUS[@]}"
ZSH_PIPE == "${pipestatus[@]}"

\* ECHO_STRING of ssh.py
ECHO_STRING ==
    <<"echo ", "\"", END, "|", PS_CODE, "|", LINUX_CODE, "|", CMD_CODE, "|",
      BASH_PIPE, "|", ZSH_PIPE, "\"">>
\* ECHO_STRING of terminal.py
TerminalECHO_STRING ==
    <<"echo ", "\"", END, "|", PS_CODE, "|", LINUX_CODE, "|", CMD_CODE, "\"">>
EXIT_STRING == <<"exit">>

Digits == {"0", "1", "2"}

\* str.endswith
EndsWith(line, suffix) ==
    /\ Len(suffix) <= Len(line)
    /\ SubSeq(line, Len(line) - Len(suffix) + 1, Len(line)) = suffix

\* str.startswith
StartsWith(line, prefix) ==
    /\ Len(prefix) <= Len(line)
    /\ SubSeq(line, 1, Len(prefix)) = prefix

\* str.split(sep) and str.splitlines() up to the treatment of a trailing separator
RECURSIVE SplitAt(_, _, _, _)
SplitAt(string, sep, field, fields) ==
    IF string = <<>>
    THEN Append(fields, field)
    ELSE IF Head(string) = sep
    THEN SplitAt(Tail(string), sep, <<>>, Append(fields, field))
    ELSE SplitAt(Tail(string), sep, Append(field, Head(string)), fields)

\* str.split(sep)
Split(string, sep) == SplitAt(string, sep, <<>>, <<>>)

\* str.splitlines(): a line break at the end opens no further line
SplitLines(string) ==
    IF string = <<>>
    THEN <<>>
    ELSE IF string[Len(string)] = LF
    THEN SplitAt(SubSeq(string, 1, Len(string) - 1), LF, <<>>, <<>>)
    ELSE SplitAt(string, LF, <<>>, <<>>)

\* str.split(): the runs between white space
SplitWords(string) == SelectSeq(Split(string, " "), LAMBDA w : w # <<>>)

\* str.isnumeric
IsNumeric(item) == item # <<>> /\ \A k \in 1..Len(item) : item[k] \in Digits

DigitValue(d) == CASE d = "0" -> 0 [] d = "1" -> 1 [] OTHER -> 2

\* int(item) of a numeric item
RECURSIVE ToInt(_)
ToInt(item) ==
    IF item = <<>>
    THEN 0
    ELSE 10 * ToInt(SubSeq(item, 1, Len(item) - 1)) + DigitValue(item[Len(item)])

\* ScanStatus taking the first field that is a number or a boolean, zero and
\* "True" included
RECURSIVE ScanStatusFirstNumeric(_)
ScanStatusFirstNumeric(items) ==
    IF items = <<>>
    THEN 0
    ELSE IF IsNumeric(Head(items))
    THEN ToInt(Head(items))
    ELSE IF Head(items) = <<"False">>
    THEN 1
    ELSE IF Head(items) = <<"True">>
    THEN 0
    ELSE ScanStatusFirstNumeric(Tail(items))

\* the for loop of ShellParser._get_code over the status fields; 0: it ended
\* without returning
RECURSIVE ScanStatus(_)
ScanStatus(items) ==
    IF items = <<>>
    THEN 0
    ELSE IF IsNumeric(Head(items)) /\ ToInt(Head(items)) # 0
    THEN ToInt(Head(items))
    ELSE IF Head(items) = <<"False">>
    THEN 1
    ELSE ScanStatus(Tail(items))

\* the for loop of ShellParser._get_code over the pipe status fields
RECURSIVE ScanPipe(_)
ScanPipe(items) ==
    IF items = <<>>
    THEN 0
    ELSE IF IsNumeric(Head(items)) /\ ToInt(Head(items)) # 0
    THEN ToInt(Head(items))
    ELSE ScanPipe(Tail(items))

\* GetCode without the count of the fields
GetCodeAnyCount(line, cmds) ==
    LET fields == Split(line, "|")
        code == ScanStatus(SubSeq(fields, 1, IF Len(fields) < 4 THEN Len(fields) ELSE 4))
    IN  IF code # 0 THEN code
        ELSE IF Len(cmds) > 1 THEN 0
        ELSE ScanPipe(IF Len(fields) < 5 THEN <<>>
                      ELSE IF Len(fields) < 6 THEN SplitWords(fields[5])
                      ELSE SplitWords(fields[5]) \o SplitWords(fields[6]))

\* GetCode reading the pipe status fields however many lines were submitted
GetCodePipeAlways(line, cmds) ==
    LET fields == Split(line, "|") IN
    IF Len(fields) # 6
    THEN 0
    ELSE LET code == ScanStatus(SubSeq(fields, 1, 4)) IN
         IF code # 0 THEN code
         ELSE ScanPipe(SplitWords(fields[5]) \o SplitWords(fields[6]))

\* ShellParser._get_code of ssh.py
GetCode(line, cmds) ==
    LET fields == Split(line, "|") IN
    IF Len(fields) # 6
    THEN 0
    ELSE LET code == ScanStatus(SubSeq(fields, 1, 4)) IN
         IF code # 0 THEN code
         ELSE IF Len(cmds) > 1 THEN 0
         ELSE ScanPipe(SplitWords(fields[5]) \o SplitWords(fields[6]))

\* ShellParser._get_code of terminal.py
TerminalGetCode(line, cmds) ==
    LET fields == Split(line, "|") IN
    IF Len(fields) # 4 THEN 0 ELSE ScanStatus(fields)

\* ShellParser._get_lines
GetLines(bytes) ==
    SplitLines(
        SelectSeq([k \in 1..Len(bytes) |->
                       IF bytes[k] = WINNL THEN LF ELSE bytes[k]],
                  LAMBDA c : c \notin {TITLE, ANSI, BS, CR, NUL}))

\* lines[start:end]
Slice(lines, start, end) == SubSeq(lines, start + 1, end)

\* the loop variables of ShellParser.parse before the first line
ParseStart == [stdout |-> <<>>, code |-> 0, stdin_count |-> 0, start |-> 0, end |-> 0]

\* ShellParser.parse, first branch: the echo of a command, of the echo command
\* or of exit
OnBoundary(st, i) == [st EXCEPT !.start = i + 1, !.end = i + 1]

OnEchoIgnored(st, i) == st

\* ShellParser.parse, second branch: a line that ends with the echo command
OnEcho(st, i) == [st EXCEPT !.end = i]

OnMarkerLastWins(st, i, lines, code) ==
    [st EXCEPT !.stdout = @ \o Slice(lines, st.start, st.end),
               !.code = code,
               !.start = i + 1, !.end = i + 1, !.stdin_count = @ + 1]

\* ShellParser.parse, third branch: a marker line, whose exit code is code
OnMarker(st, i, lines, code) ==
    [st EXCEPT !.stdout = @ \o Slice(lines, st.start, st.end),
               !.code = IF @ # 0 THEN @ ELSE code,
               !.start = i + 1, !.end = i + 1, !.stdin_count = @ + 1]

\* the for loop of ShellParser.parse from line i on (i counts from 0); term
\* tells the parser of terminal.py from the one of ssh.py
RECURSIVE ParseFrom(_, _, _, _, _)
ParseFrom(lines, cmds, term, i, st) ==
    IF i >= Len(lines) \/ st.stdin_count > Len(cmds) - 1
    THEN [stdout |-> st.stdout, code |-> st.code]
    ELSE LET line == lines[i + 1]
             echo == IF term THEN TerminalECHO_STRING ELSE ECHO_STRING
         IN  ParseFrom(lines, cmds, term, i + 1,
               IF \/ EndsWith(line, cmds[st.stdin_count + 1])
                  \/ line \in {cmds[k] : k \in 1..Len(cmds)} \cup {echo, EXIT_STRING}
               THEN OnBoundary(st, i)
               ELSE IF EndsWith(line, echo)
               THEN OnEcho(st, i)
               ELSE IF StartsWith(line, <<END>>) \/ StartsWith(line, <<"\"", END>>)
               THEN OnMarker(st, i, lines,
                             IF term THEN TerminalGetCode(line, cmds)
                                         ELSE GetCode(line, cmds))
               ELSE st)

\* ShellParser(stdin).parse(stdout_bytes)
Parse(cmds, bytes, term) ==
    ParseFrom(GetLines(bytes), cmds, term, 0, ParseStart)

\* the command strings executed, by their lines (string.splitlines())
StdinInputs == {<<<<"echo ", "hi">>>>, <<<<"false">>, <<"echo ", "ok">>>>}

\* how the pseudo-terminal shows a line that was typed: not at all, as typed, or
\* behind a coloured prompt
EchoStyles == {"none", "plain", "prompt"}

\* what a command prints
OutputRuns == {<<>>, <<<<"hi">>>>, <<<<"ok">>>>}

\* what the echo command prints under sh, bash, zsh, PowerShell and cmd.exe when
\* it was typed as ECHO_STRING of ssh.py
Markers ==
    {<<END, "|", "0", "|", "0", "|", "0", "|", "0", "|", "0">>,
     <<END, "|", "|", "1", "|", CMD_CODE, "|", "1", "|">>,
     <<END, "|", "|", "2", "|", CMD_CODE, "|", "2", "|">>,
     <<END, "|", "|", "0", "|", CMD_CODE, "|", "1", " ", "0", "|">>,
     <<END, "|", "|", "False", "|", CMD_CODE, "|", "|">>,
     <<"\"", END, "|", PS_CODE, "|", LINUX_CODE, "|", "1", "|", BASH_PIPE, "|",
       ZSH_PIPE, "\"">>}

\* the same when it was typed as ECHO_STRING of terminal.py
TerminalMarkers ==
    {<<END, "|", "0", "|", "0", "|", "0">>,
     <<END, "|", "|", "1", "|", CMD_CODE>>,
     <<END, "|", "|", "2", "|", CMD_CODE>>,
     <<END, "|", "|", "False", "|", CMD_CODE>>,
     <<"\"", END, "|", PS_CODE, "|", LINUX_CODE, "|", "1", "\"">>}

\* a line on the channel as the pseudo-terminal sends it
Shown(line, style) ==
    CASE style = "none" -> <<>>
      [] style = "plain" -> line \o <<CR, LF>>
      [] OTHER -> <<ANSI, "$ ">> \o line \o <<CR, LF>>

RECURSIVE ShownAll(_)
ShownAll(lines) ==
    IF lines = <<>> THEN <<>> ELSE Shown(Head(lines), "plain") \o ShownAll(Tail(lines))

\* what the channel carries for one command line: its echo, its output, the
\* echo of the echo command and the marker that command prints
Answer(cmd, echo_string, a) ==
    Shown(cmd, a.echo) \o ShownAll(a.out) \o Shown(echo_string, a.mark_echo)
        \o Shown(a.marker, "plain")

\* a shell channel of SSH.execute_command_string (ssh.py) or of
\* SSHTerminal's execute (terminal.py) after stdin was written
InitParser ==
    /\ online = TRUE
    /\ connected = TRUE
    /\ request = None
    /\ error = FALSE
    /\ request_timestamp = 0
    /\ client = "session"
    /\ use_icmplib = "True"
    /\ cache = "reset"
    /\ now = 0
    /\ disconnect_mode = FALSE
    /\ invoke_shell = TRUE
    /\ add_host_keys = FALSE
    /\ lastOp = "idle"
    /\ raised = None
    /\ notified = 0
    /\ attempts = 0
    /\ probed = "none"
    /\ verdict = "none"
    /\ host_key = "none"
    /\ raise_errors = FALSE
    /\ returned = <<>>
    /\ steps = <<>>
    /\ stdin \in StdinInputs
    /\ stdout_bytes = <<>>
    /\ answers = <<>>
    /\ terminal \in BOOLEAN
    /\ executed = None
    /\ expired = None
    /\ auth_failed = FALSE

\* the shell runs the next command line and the echo command typed after it
ShellAnswers ==
    /\ lastOp = "idle"
    /\ Len(answers) < Len(stdin)
    /\ \E a \in [echo : EchoStyles, out : OutputRuns, mark_echo : EchoStyles,
                 marker : IF terminal THEN TerminalMarkers ELSE Markers] :
         /\ stdout_bytes' = stdout_bytes \o
                Answer(stdin[Len(answers) + 1],
                       IF terminal THEN TerminalECHO_STRING ELSE ECHO_STRING, a)
         /\ answers' = Append(answers, a)
    /\ UNCHANGED <<online, connected, request, error, request_timestamp, client,
                   use_icmplib, cache, now, disconnect_mode, invoke_shell,
                   add_host_keys, lastOp, raised, notified, attempts, probed,
                   verdict, host_key, raise_errors, returned, steps, stdin, terminal,
                   executed, expired, auth_failed>>

\* the shell runs exit: the pseudo-terminal shows it and the channel ends
ShellExits ==
    /\ lastOp = "idle"
    /\ Len(answers) = Len(stdin)
    /\ stdout_bytes' = stdout_bytes \o Shown(EXIT_STRING, "plain")
    /\ answers' = Append(answers, [echo |-> "plain", out |-> <<>>,
                                   mark_echo |-> "none", marker |-> <<>>])
    /\ UNCHANGED <<online, connected, request, error, request_timestamp, client,
                   use_icmplib, cache, now, disconnect_mode, invoke_shell,
                   add_host_keys, lastOp, raised, notified, attempts, probed,
                   verdict, host_key, raise_errors, returned, steps, stdin, terminal,
                   executed, expired, auth_failed>>

\* stdout_file.read() returns what the channel carried and it is parsed
ParseOutput ==
    /\ lastOp = "idle"
    /\ \E r \in {[Cur EXCEPT !.returned = <<Parse(stdin, stdout_bytes, terminal)>>]} :
          Commit(r, "parse")

NextParser ==
    \/ ShellAnswers
    \/ ShellExits
    \/ ParseOutput
    \/ Return

SpecParser == InitParser /\ [][NextParser]_vars

----------------------------------------------------------------------------
(* ShellParser on a channel that carries the marker of the first command line *)
(* and nothing else: what _get_code makes of any marker.                      *)

\* what a shell puts in the place of one of its exit status variables
StatusFields ==
    {<<>>, <<"0">>, <<"1">>, <<"2">>, <<"1", "0">>, <<"True">>, <<"False">>,
     <<CMD_CODE>>}

\* what a shell puts in the place of a pipe status array
PipeFields == {<<>>, <<"0">>, <<"1">>, <<"0", " ", "2">>, <<"0", " ", "0">>}

\* the fields as the echo command prints them, "|" between them
RECURSIVE JoinFields(_)
JoinFields(fields) ==
    IF Len(fields) = 1
    THEN fields[1]
    ELSE fields[1] \o <<"|">> \o JoinFields(Tail(fields))

\* the fields a marker has when the echo command was typed as ECHO_STRING
\* (of terminal.py if term, else of ssh.py), and when it is one field short or
\* one field long
MarkerFields(term) ==
    LET three == {<<<<END>>, a, b>> : a, b \in StatusFields}
        four == {<<<<END>>, a, b, c>> : a, b, c \in StatusFields}
        five == {Append(f, p) : f \in four, p \in PipeFields}
        six == {Append(f, q) : f \in five, q \in PipeFields}
    IN  IF term THEN three \cup four \cup five ELSE four \cup five \cup six

\* a shell channel on which the first command line printed nothing, neither it
\* nor the echo command was echoed, and the marker is any marker
InitMarker ==
    /\ online = TRUE
    /\ connected = TRUE
    /\ request = None
    /\ error = FALSE
    /\ request_timestamp = 0
    /\ client = "session"
    /\ use_icmplib = "True"
    /\ cache = "reset"
    /\ now = 0
    /\ disconnect_mode = FALSE
    /\ invoke_shell = TRUE
    /\ add_host_keys = FALSE
    /\ lastOp = "idle"
    /\ raised = None
    /\ notified = 0
    /\ attempts = 0
    /\ probed = "none"
    /\ verdict = "none"
    /\ host_key = "none"
    /\ raise_errors = FALSE
    /\ returned = <<>>
    /\ steps = <<>>
    /\ stdin \in StdinInputs
    /\ terminal \in BOOLEAN
    /\ \E fields \in MarkerFields(terminal) :
         /\ answers = <<[echo |-> "none", out |-> <<>>, mark_echo |-> "none",
                         marker |-> JoinFields(fields), fields |-> fields]>>
         /\ stdout_bytes = Answer(stdin[1],
                                  IF terminal THEN TerminalECHO_STRING ELSE ECHO_STRING,
                                  answers[1])
    /\ executed = None
    /\ expired = None
    /\ auth_failed = FALSE

NextMarker ==
    \/ ParseOutput
    \/ Return

SpecMarker == InitMarker /\ [][NextMarker]_vars

----------------------------------------------------------------------------
(* manager.py: a probe that runs while async_connect is suspended at         *)
(* _run_in_executor; lastOp = "connecting" is the position of the suspended  *)
(* call                                                                       *)

\* the assignments of Commit, for a step that is not taken from idle
Settle(r, op) ==
    /\ online' = r.online
    /\ connected' = r.connected
    /\ request' = r.request
    /\ error' = r.error
    /\ request_timestamp' = r.request_timestamp
    /\ client' = r.client
    /\ use_icmplib' = r.use_icmplib
    /\ cache' = r.cache
    /\ raised' = r.raised
    /\ notified' = r.notified
    /\ attempts' = r.attempts
    /\ probed' = r.probed
    /\ verdict' = r.verdict
    /\ host_key' = r.host_key
    /\ raise_errors' = r.raise_errors
    /\ returned' = r.returned
    /\ steps' = r.steps
    /\ executed' = r.executed
    /\ expired' = r.expired
    /\ auth_failed' = r.auth_failed
    /\ lastOp' = op
    /\ UNCHANGED <<now, disconnect_mode, invoke_shell, add_host_keys, channel>>

\* SSHManager.async_connect up to its await: the three checks passed and
\* SSH.connect was handed to the worker
ConnectBegin ==
    /\ lastOp = "idle"
    /\ ~connected
    /\ online
    /\ ~IsShuttingDown(Cur)
    /\ Settle(Cur, "connecting")

\* SSHManager.async_ping called by another task while the connect is in flight;
\* its exception and its notifications go to that task
ProbeWhileConnecting ==
    /\ lastOp = "connecting"
    /\ \E p \in PingInputs(Cur) :
         \E r \in {AsyncPing(Cur, p)} :
            Settle([Caught(r) EXCEPT !.notified = 0], "connecting")

\* SSHManager.async_connect from its await on: the worker is done and the
\* handler of the outcome runs
ConnectEnd ==
    /\ lastOp = "connecting"
    /\ \E env \in ConnectEnvs :
         \E r \in {ConnectHandlers(SSHConnect(Cur, env))} : Settle(r, "connect")

\* a call other than the suspended connect returns
OverlapReturn ==
    /\ lastOp # "connecting"
    /\ Return

NextOverlap ==
    \/ Advance
    \/ OverlapReturn
    \/ ReadIsUp
    \/ Ping
    \/ Connect
    \/ ManagerDisconnect
    \/ Close
    \/ ExecuteCommandString
    \/ Update
    \/ TurnOn
    \/ TurnOff
    \/ Restart
    \/ ConnectBegin
    \/ ProbeWhileConnecting
    \/ ConnectEnd

SpecOverlap == Init /\ [][NextOverlap]_vars

----------------------------------------------------------------------------
(* Properties *)

\* C1: in every reachable state, after every transition of the manager,
\* connected = true implies online = true
C1_ConnectedImpliesOnline == connected => online

\* C1: a session has been opened by connect()
C1_Witness == lastOp = "connect" /\ verdict = "ok" /\ connected /\ online

\* C2: when an operation that probed the host returns, online is the result of
\* that probe: true after a probe that succeeded, false after one that failed
C2_OnlineIsLastProbe ==
    (lastOp \in {"ping", "update"} /\ probed # "none") => (online = (probed = "ok"))

\* C2: a failed probe has taken a host that was online and connected to offline
\* (the two notifications are those of connected and of online)
C2_Witness ==
    /\ lastOp = "ping"
    /\ probed = "fail"
    /\ ~online
    /\ request = None
    /\ notified = 2

\* C3: an update tick that finds a pending request older than the timeout of its
\* kind clears it: the request is none when the tick returns
C3_ExpiredRequestCleared ==
    [][(/\ lastOp = "idle"
        /\ lastOp' = "update"
        /\ request # None
        /\ now - request_timestamp > TIMEOUTS[request])
       => (request' = None /\ expired' = request)]_vars

\* C3: a turn_on request has been cleared by an update tick
C3_Witness == lastOp = "update" /\ expired = "turn_on" /\ request = None

\* C4: disconnect() on a connected session sets connected = false, closes the
\* transport and notifies once; on a session that is not connected (so also the
\* second of two calls in a row) it changes nothing, notifies nobody and returns
C4_DisconnectNotifiesOnce ==
    [][(lastOp = "idle" /\ lastOp' = "disconnect")
       => /\ raised' = None
          /\ ~connected'
          /\ IF connected
             THEN notified' = 1 /\ client' = "closed"
             ELSE /\ notified' = 0
                  /\ UNCHANGED <<online, connected, request, error,
                                 request_timestamp, client, cache>>]_vars

\* C4: disconnect() has closed a connected session with one notification
C4_Witness ==
    lastOp = "disconnect" /\ notified = 1 /\ ~connected /\ client = "closed"

\* C5: an assignment to a tracked field of State notifies once if the value
\* differs from the previous one, and otherwise notifies nobody and leaves the
\* whole state as it was
C5_NotifyIffChanged ==
    [][(lastOp = "idle" /\ lastOp' \in {"setattr", "state_update"})
       => IF UNCHANGED <<online, connected, request, error>>
          THEN notified' = 0 /\ UNCHANGED request_timestamp
          ELSE notified' = 1]_vars

\* C5: an assignment has changed request, and notified once
C5_Witness ==
    lastOp = "setattr" /\ notified = 1 /\ request # None /\ request_timestamp = now

\* C6: a connect() whose attempt fails on the credentials or on an unknown host
\* key raises that fault and leaves error = true, connected = false and the
\* cached data reset
C6_AuthFault ==
    (lastOp = "connect" /\ verdict \in {"hostkey", "auth"})
    => /\ raised = (IF verdict = "hostkey"
                    THEN SSHHostKeyUnknownError
                    ELSE SSHAuthenticationError)
       /\ error
       /\ ~connected
       /\ cache = "reset"

\* C6: connect() has failed on the credentials
C6_Witness ==
    lastOp = "connect" /\ verdict = "auth" /\ raised = SSHAuthenticationError

\* C7 as stated: when an operation that made a connect attempt returns with
\* error = true, that attempt failed with an authentication error
C7_ErrorOnlyAfterAuthFailure ==
    (lastOp # "idle" /\ verdict # "none" /\ error) => verdict \in {"hostkey", "auth"}

\* C7 amended: error = true only if a connect attempt has failed with an
\* authentication error and no attempt has succeeded since; a successful connect
\* resets error
C7_ErrorSinceAuthFailure ==
    /\ error => auth_failed
    /\ (lastOp # "idle" /\ verdict = "ok") => ~error

\* C7: error is still true after a later attempt that failed on the transport
C7_Witness == lastOp = "connect" /\ verdict = "failed" /\ error

\* C8: connect() on a connected session makes no attempt on the transport,
\* raises nothing, notifies nobody and changes nothing
C8_ConnectWhenConnected ==
    [][(lastOp = "idle" /\ lastOp' = "connect" /\ connected)
       => /\ attempts' = 0
          /\ raised' = None
          /\ notified' = 0
          /\ UNCHANGED <<online, connected, request, error,
                         request_timestamp, client, cache>>]_vars

\* C8: connect() has returned on a session that was connected
C8_Witness ==
    lastOp = "connect" /\ connected /\ attempts = 0 /\ raised = None

\* C9: when connect() raises, the transport is closed and connected = false
C9_FailedConnectDisconnected ==
    (lastOp = "connect" /\ raised # None) => (client = "closed" /\ ~connected)

\* C10: a command that fails to open its channel, to send, to read or to parse
\* raises ExecutionError and leaves the session disconnected, its transport
\* closed and the cached data reset
C10_ExecutionFailureDisconnects ==
    (/\ lastOp = "execute"
     /\ executed \in {"open_fail", "send_fail", "read_fail", "parse_fail"})
    => /\ raised = ExecutionError
       /\ ~connected
       /\ client = "closed"
       /\ cache = "reset"

\* C10: a command has failed while reading its output
C10_Witness == lastOp = "execute" /\ executed = "read_fail" /\ raised = ExecutionError

\* C11: in exec mode outside disconnect mode, a command whose read times out
\* raises the timeout ExecutionError, leaves the session connected and leaves the
\* cached data as it was
C11_ExecTimeoutKeepsSessionAndCache ==
    [][(/\ lastOp = "idle"
        /\ lastOp' = "execute"
        /\ executed' = "read_timeout"
        /\ ~invoke_shell
        /\ ~disconnect_mode)
       => (raised' = ExecutionTimeout /\ connected' /\ cache' = cache)]_vars

\* C12: in interactive-shell mode, a command whose read times out leaves the
\* session disconnected
C12_ShellTimeoutDisconnects ==
    (lastOp = "execute" /\ executed = "read_timeout" /\ invoke_shell) => ~connected

\* C13: in disconnect mode, whenever execute-command-string finishes, whether it
\* returns or raises, connected = false
C13_DisconnectModeNoSession ==
    (lastOp = "execute" /\ disconnect_mode) => ~connected

\* C14: is_up equals (online and the pending request is not connect) in
\* disconnect mode and equals connected otherwise
C14_IsUp ==
    lastOp = "is_up" =>
        returned = <<IF disconnect_mode
                     THEN online /\ request # "connect"
                     ELSE connected>>

\* is_up has been read in disconnect mode on an online host with a pending connect
C14_Witness ==
    /\ lastOp = "is_up"
    /\ disconnect_mode /\ online /\ request = "connect"
    /\ returned = <<FALSE>>

\* C15: an update whose probe finds the host offline ends offline, and one whose
\* connect attempt fails with a non-auth fault ends disconnected; either returns
\* normally without raise_errors and raises OfflineError / SSHConnectError with it
C15_UnreachableRaisesOnlyOnDemand ==
    /\ (lastOp = "update" /\ probed = "fail") =>
          /\ ~online /\ ~connected
          /\ raised = (IF raise_errors THEN OfflineError ELSE None)
    /\ (lastOp = "update" /\ ~disconnect_mode /\ verdict = "failed") =>
          /\ ~connected
          /\ raised = (IF raise_errors THEN SSHConnectError ELSE None)

\* a routine update has returned normally from a failed connect attempt
C15_Witness ==
    /\ lastOp = "update" /\ ~raise_errors /\ ~disconnect_mode
    /\ verdict = "failed" /\ attempts = 1
    /\ raised = None /\ online /\ ~connected

\* C16: outside disconnect mode an update whose connect attempt fails on the host
\* key or on authentication raises that fault whatever raise_errors is, and an
\* update without raise_errors raises nothing else
C16_AuthFaultsAlwaysRaised ==
    /\ (lastOp = "update" /\ ~disconnect_mode /\ verdict = "hostkey") =>
          raised = SSHHostKeyUnknownError
    /\ (lastOp = "update" /\ ~disconnect_mode /\ verdict = "auth") =>
          raised = SSHAuthenticationError
    /\ (lastOp = "update" /\ ~raise_errors) =>
          raised \in {None, SSHHostKeyUnknownError, SSHAuthenticationError}
    /\ (lastOp = "update" /\ ~disconnect_mode
          /\ raised \in {SSHHostKeyUnknownError, SSHAuthenticationError}) =>
          verdict \in {"hostkey", "auth"}

\* a routine update has raised the authentication fault of its connect attempt
C16_Witness ==
    /\ lastOp = "update" /\ ~raise_errors /\ ~disconnect_mode
    /\ verdict = "auth" /\ raised = SSHAuthenticationError

\* C17: while error = true, an update does not start another connect attempt
C17_ErrorBlocksRetry ==
    [][(lastOp = "idle" /\ error /\ lastOp' = "update") => attempts' = 0]_vars

\* C18: without add_host_keys, a connect attempt that is offered an unknown host
\* key fails on the host key and ends disconnected: connect() raises
\* SSHHostKeyUnknownError and a command that had to connect raises an execution
\* error; an attempt offered an unknown key succeeds only with add_host_keys
C18_UnknownHostKeyRejected ==
    /\ (host_key = "unknown" /\ ~add_host_keys) =>
          /\ verdict = "hostkey"
          /\ ~connected /\ client # "session"
          /\ lastOp = "connect" => raised = SSHHostKeyUnknownError
          /\ lastOp = "execute" => IsExecutionError(raised)
    /\ (host_key = "unknown" /\ verdict = "ok") => add_host_keys

\* connect() has been refused on a reachable host with an unknown key and
\* acceptable credentials
C18_Witness ==
    /\ lastOp = "connect" /\ host_key = "unknown" /\ ~add_host_keys
    /\ verdict = "hostkey"
    /\ raised = SSHHostKeyUnknownError /\ ~connected /\ online

\* the output the first n answers carry between the echo of a command and an
\* echo of the echo command behind a prompt
RECURSIVE Captured(_, _)
Captured(as, n) ==
    IF n = 0
    THEN <<>>
    ELSE Captured(as, n - 1)
            \o (IF as[n].mark_echo = "prompt" THEN as[n].out ELSE <<>>)

\* the markers of the first n answers
Marked(as, n) == [k \in 1..n |-> as[k].marker]

\* the first exit code other than 0 among the markers, 0 if there is none
RECURSIVE FirstFailure(_, _, _)
FirstFailure(markers, cmds, term) ==
    IF markers = <<>>
    THEN 0
    ELSE LET code == IF term THEN TerminalGetCode(Head(markers), cmds)
                             ELSE GetCode(Head(markers), cmds)
         IN  IF code # 0 THEN code ELSE FirstFailure(Tail(markers), cmds, term)

\* the commands the shell has answered
Answered == IF Len(answers) < Len(stdin) THEN Len(answers) ELSE Len(stdin)

\* C19 as stated: parsing the lines "echo hi", "hi", "__exit_code__|0|0|0|0|0",
\* "exit" for the command line "echo hi" yields stdout ["hi"] and exit code 0
C19_EchoHiExample ==
    (/\ lastOp = "parse" /\ ~terminal
     /\ stdin = <<<<"echo ", "hi">>>>
     /\ GetLines(stdout_bytes) =
            <<<<"echo ", "hi">>, <<"hi">>,
              <<END, "|", "0", "|", "0", "|", "0", "|", "0", "|", "0">>,
              EXIT_STRING>>)
    => returned = <<[stdout |-> <<<<"hi">>>>, code |-> 0]>>

\* C19: the stdout the parser returns is, command by command, the output lines
\* between the echo of the command and the echo of the echo command shown
\* behind a prompt; a command whose echo command is shown as typed or not at
\* all contributes no line
C19_OutputUpToEchoedSentinel ==
    lastOp = "parse" => returned[1].stdout = Captured(answers, Answered)

\* the lines "echo hi", "hi", "$ echo "__exit_code__|...", "__exit_code__|0|0|0|0|0",
\* "exit" have been parsed for the command line "echo hi"
C19_Witness ==
    /\ lastOp = "parse" /\ ~terminal
    /\ stdin = <<<<"echo ", "hi">>>>
    /\ GetLines(stdout_bytes) =
           <<<<"echo ", "hi">>, <<"hi">>, <<"$ ">> \o ECHO_STRING,
             <<END, "|", "0", "|", "0", "|", "0", "|", "0", "|", "0">>,
             EXIT_STRING>>
    /\ returned = <<[stdout |-> <<<<"hi">>>>, code |-> 0]>>

C21_FailedProbe ==
    [][(lastOp = "idle" /\ lastOp' = "handle_ping_error") =>
          /\ ~online' /\ ~connected'
          /\ request' = (CASE request = "turn_off" -> None
                           [] request = "restart" -> "turn_on"
                           [] OTHER -> request)
          /\ error' = error]_vars

\* a failed probe has been handled on a connected session with a pending restart
C21_Witness ==
    /\ lastOp = "handle_ping_error"
    /\ ~online /\ ~connected /\ request = "turn_on"
    /\ notified = 3 /\ request_timestamp = now /\ now = MaxTime

\* C22: handling a successful probe sets online = true and promotes a pending
\* turn_on to connect, leaving any other request, connected and error as they
\* were; so a restart pending at a failed probe is turn_on after it and connect
\* after the successful probe that follows
C22_SuccessfulProbe ==
    [][/\ (lastOp = "idle" /\ lastOp' = "handle_ping_success") =>
             /\ online'
             /\ request' = (IF request = "turn_on" THEN "connect" ELSE request)
             /\ connected' = connected
             /\ error' = error
       /\ (lastOp = "idle" /\ lastOp' = "handle_ping_error" /\ request = "restart") =>
             /\ request' = "turn_on"
             /\ HandlePingSuccess(HandlePingError(Cur)).request = "connect"]_vars

\* a successful probe has been handled on an offline host with a pending turn_on
C22_Witness ==
    /\ lastOp = "handle_ping_success"
    /\ online /\ request = "connect"
    /\ notified = 2 /\ request_timestamp = now /\ now = MaxTime

\* C23: a successful connect sets connected = true and error = false, clears a
\* pending connect, and leaves a request of any other kind and online as they
\* were
C23_ConnectSuccess ==
    [][(lastOp = "idle" /\ lastOp' = "handle_connect_success") =>
          /\ connected' /\ ~error'
          /\ request' = (IF request = "connect" THEN None ELSE request)
          /\ online' = online]_vars

\* a successful connect has been handled with a pending connect and the error
\* flag set
C23_Witness ==
    /\ lastOp = "handle_connect_success"
    /\ connected /\ ~error /\ request = None
    /\ notified = 3

\* C24: a connect attempt that fails on the transport resets the cached data
\* and leaves error, the pending request, online and connected (false) as they
\* were
C24_ConnectFaultFrame ==
    [][(lastOp = "idle" /\ lastOp' = "connect" /\ verdict' = "failed") =>
          /\ cache' = "reset"
          /\ error' = error /\ request' = request /\ online' = online
          /\ ~connected /\ ~connected'
          /\ raised' = SSHConnectError]_vars

\* connect() has failed on the transport with the error flag set and a connect
\* pending
C24_Witness ==
    /\ lastOp = "connect" /\ verdict = "failed" /\ attempts = 1
    /\ raised = SSHConnectError
    /\ error /\ request = "connect" /\ online /\ ~connected
    /\ cache = "reset" /\ notified = 0

\* C25 as stated: issuing turn-on sets the pending request to turn_on
C25_TurnOnSetsRequest ==
    [][(lastOp = "idle" /\ lastOp' = "turn_on") => request' = "turn_on"]_vars

\* C25: issuing turn-on for an online host changes nothing; for an offline host
\* it either raises ValueError (no MAC address) and changes nothing, or sets
\* the pending request to turn_on
C25_TurnOnWhenOffline ==
    [][(lastOp = "idle" /\ lastOp' = "turn_on") =>
          /\ online' = online /\ connected' = connected /\ error' = error
          /\ IF online
             THEN raised' = None /\ request' = request
             ELSE \/ raised' = ValueError /\ request' = request
                  \/ raised' = None /\ request' = "turn_on"]_vars

\* turn-on has been issued for an offline host with no request pending
C25_Witness ==
    /\ lastOp = "turn_on" /\ raised = None
    /\ ~online /\ request = "turn_on" /\ notified = 1

\* C26 as stated: a turn-off or restart whose action command succeeds ends
\* disconnected with that request pending; if the action command fails the
\* request is not set and the session is not disconnected
C26_ActionFailureKeepsSession ==
    [][(lastOp = "idle" /\ lastOp' \in {"turn_off", "restart"}) =>
          IF raised' = None
          THEN ~connected' /\ request' = lastOp'
          ELSE request' = request /\ connected' = connected]_vars

\* C26: a turn-off or restart whose action command succeeds ends disconnected
\* with that request pending; if the action fails the request is not set (a
\* pending connect is cleared when the command connected first), and the
\* session stays connected exactly when no command ran or, outside disconnect
\* mode, the command timed out: any other failed execution has disconnected it
C26_ActionOutcome ==
    [][(lastOp = "idle" /\ lastOp' \in {"turn_off", "restart"}) =>
          IF raised' = None
          THEN ~connected' /\ client' = "closed" /\ request' = lastOp'
          ELSE /\ request' = (IF request = "connect" /\ verdict' = "ok"
                               THEN None ELSE request)
               /\ connected' = (/\ connected
                                /\ \/ executed' = None
                                   \/ ~disconnect_mode /\ executed' = "read_timeout")]_vars

\* a turn-off has failed on a connected session whose action command could not
\* be read
C26_Witness ==
    /\ lastOp = "turn_off" /\ raised = ExecutionError /\ executed = "read_fail"
    /\ ~connected /\ client = "closed" /\ request = None /\ notified = 1

\* the steps of an update from the probe on: a failed probe ends it, a connect
\* follows a successful probe, the commands follow a connect that succeeded
StepsFromProbe ==
    {<<[step |-> "probe", ok |-> FALSE]>>,
     <<[step |-> "probe", ok |-> TRUE], [step |-> "connect", ok |-> FALSE]>>,
     <<[step |-> "probe", ok |-> TRUE], [step |-> "connect", ok |-> TRUE],
       [step |-> "commands", ok |-> TRUE]>>,
     <<[step |-> "probe", ok |-> TRUE], [step |-> "connect", ok |-> TRUE],
       [step |-> "commands", ok |-> FALSE]>>}

\* C27: outside disconnect mode an update on a connected session tries the
\* session first and ends there when that succeeds; the probe comes first when
\* not connected and otherwise after the failed session attempt; a connect
\* attempt is made only after a successful probe and commands are run only on
\* the session or after the connect step succeeded
C27_UpdateStepOrder ==
    [][(lastOp = "idle" /\ lastOp' = "update" /\ ~disconnect_mode) =>
          /\ steps' \in
               (IF connected
                THEN {<<[step |-> "session", ok |-> TRUE]>>}
                     \cup {<<[step |-> "session", ok |-> FALSE]>> \o tl :
                              tl \in StepsFromProbe}
                ELSE StepsFromProbe)
          /\ LET probe == {k \in 1..Len(steps') : steps'[k].step = "probe"} IN
             /\ (probed' = "none") = (probe = {})
             /\ \A k \in probe : steps'[k].ok = (probed' = "ok")
          /\ attempts' > 0 =>
                /\ probed' = "ok"
                /\ \E k \in 1..Len(steps') : steps'[k].step = "connect"
          /\ (~connected /\ executed' # None) =>
                (probed' = "ok" /\ verdict' = "ok")]_vars

\* an update has found its session broken, probed the host, connected again
\* and run its commands
C27_Witness ==
    /\ lastOp = "update" /\ ~disconnect_mode
    /\ Len(steps) = 4 /\ steps[1] = [step |-> "session", ok |-> FALSE]
    /\ probed = "ok" /\ attempts = 1 /\ verdict = "ok" /\ connected
    /\ executed = "ok" /\ cache = "fresh"


\* the marker the shell printed for the first command line, field by field
MarkerOf == answers[1].fields

\* the number of fields ECHO_STRING of the parser in use has
ExpectedFields == IF terminal THEN 4 ELSE 6

\* C28: a marker whose number of "|"-separated fields is not the one the
\* parser expects gives exit code 0, whatever its fields hold; nothing is
\* raised and the parse returns a result.
C28_MalformedMarker ==
    (lastOp = "parse" /\ Len(MarkerOf) # ExpectedFields) =>
        /\ raised = None
        /\ Len(returned) = 1
        /\ returned[1].code = 0
        /\ returned[1].stdout = <<>>

C28_Witness ==
    /\ lastOp = "parse"
    /\ ~terminal
    /\ MarkerOf = <<<<END>>, <<>>, <<"1">>, <<CMD_CODE>>, <<"1">>>>
    /\ Len(returned) = 1
    /\ returned[1].code = 0

\* the number a status field stands for
FieldNumber(f) ==
    CASE f = <<"1">> -> 1
      [] f = <<"2">> -> 2
      [] f = <<"1", "0">> -> 10
      [] OTHER -> 0

FieldIsNumber(f) == f \in {<<"0">>, <<"1">>, <<"2">>, <<"1", "0">>}

\* the number a pipe status array stands for: its first non-zero word
PipeNumber(p) ==
    CASE p = <<"1">> -> 1
      [] p = <<"0", " ", "2">> -> 2
      [] OTHER -> 0

\* the fields of the per-shell exit status variables
StatusPlaces == 2..4

WellFormed == Len(MarkerOf) = ExpectedFields

\* the pipe status fields have no say: there are none, or more than one line
\* was submitted, or none of them holds a non-zero number
PipeSilent ==
    \/ terminal
    \/ Len(stdin) > 1
    \/ (PipeNumber(MarkerOf[5]) = 0 /\ PipeNumber(MarkerOf[6]) = 0)

\* the first status field that is a number, "True" or "False", read as a
\* number (True 0, False 1); 0 when there is none
FirstNumericValue ==
    LET ks == {k \in StatusPlaces :
                  FieldIsNumber(MarkerOf[k]) \/ MarkerOf[k] \in {<<"True">>, <<"False">>}}
    IN  IF ks = {} THEN 0
        ELSE LET k == CHOOSE m \in ks : \A n \in ks : m <= n IN
             IF MarkerOf[k] = <<"False">> THEN 1 ELSE FieldNumber(MarkerOf[k])

\* the first status field that is a non-zero number or "False", read as a
\* number (False 1); 0 when there is none
FirstNonZeroValue ==
    LET ks == {k \in StatusPlaces :
                  FieldNumber(MarkerOf[k]) # 0 \/ MarkerOf[k] = <<"False">>}
    IN  IF ks = {} THEN 0
        ELSE LET k == CHOOSE m \in ks : \A n \in ks : m <= n IN
             IF MarkerOf[k] = <<"False">> THEN 1 ELSE FieldNumber(MarkerOf[k])

\* C29 as stated: the exit code of a well-formed marker is the value of the
\* first status field that is a number, with "True" read as 0 and "False" as 1.
C29_FirstNumericField ==
    (lastOp = "parse" /\ WellFormed /\ PipeSilent) =>
        returned[1].code = FirstNumericValue

\* C29: the exit code of a well-formed marker is the value of the first status
\* field that is a non-zero number or "False" (read as 1); empty fields, zeros,
\* "True" and any other text are passed over, and the code is 0 when no field
\* is left.
C29_FirstNonZeroField ==
    (lastOp = "parse" /\ WellFormed /\ PipeSilent) =>
        returned[1].code = FirstNonZeroValue

C29_Witness ==
    /\ lastOp = "parse"
    /\ ~terminal
    /\ MarkerOf = <<<<END>>, <<"0">>, <<"False">>, <<CMD_CODE>>, <<>>, <<>>>>
    /\ returned[1].code = 1

\* C30: the pipe status fields of a marker decide the exit code only when one
\* command line was submitted and the status fields gave no non-zero code, and
\* then the code is their first non-zero word; with a non-zero status code, or
\* with two or more lines, the code is the same whatever they hold.
C30_PipefailOnlySingleLine ==
    (lastOp = "parse" /\ ~terminal /\ WellFormed) =>
        returned[1].code =
            IF FirstNonZeroValue # 0 THEN FirstNonZeroValue
            ELSE IF Len(stdin) # 1 THEN 0
            ELSE IF PipeNumber(MarkerOf[5]) # 0 THEN PipeNumber(MarkerOf[5])
            ELSE PipeNumber(MarkerOf[6])

C30_Witness ==
    /\ lastOp = "parse"
    /\ ~terminal
    /\ Len(stdin) = 2
    /\ MarkerOf = <<<<END>>, <<>>, <<"0">>, <<CMD_CODE>>, <<"0", " ", "2">>, <<"1">>>>
    /\ returned[1].code = 0


IntentIssued == lastOp \in {"turn_on", "turn_off", "restart"}

\* C32: while update ticks keep occurring and time keeps advancing, a pending
\* request is eventually cleared unless a new turn-on, turn-off or restart
\* intent is issued first, whatever promotions restart its clock on the way.
C32_RequestEventuallyCleared ==
    (request # None) ~> (request = None \/ IntentIssued)

C32_Witness ==
    /\ lastOp = "update"
    /\ expired = "connect"
    /\ request = None
    /\ now = MaxTime


\* C33: a connect that was in flight while a probe failed does not end with a
\* session open on a host that is marked offline.
C33_OverlapKeepsConnectedOnline ==
    (lastOp = "connect" /\ connected) => online


\* C34: an operation that leaves a different request pending stamps it with the
\* current time, so the new kind has its full budget; an operation that leaves
\* the same request pending, re-issuing it included, leaves the timestamp as it
\* was, and the next update still clears the request once the time since that
\* timestamp exceeds the budget.
C34_TimestampFollowsRequestChange ==
    [][(lastOp = "idle" /\ lastOp' # "idle") =>
          /\ request' # request => request_timestamp' = now
          /\ request' = request => request_timestamp' = request_timestamp
          /\ (lastOp' = "update" /\ request # None
                  /\ now - request_timestamp > TIMEOUTS[request]) =>
                (expired' = request /\ request' = None)]_vars

C34_Witness ==
    /\ lastOp = "turn_on"
    /\ raised = None
    /\ ~online
    /\ request = "turn_on"
    /\ request_timestamp < now

====
